---- MODULE Spec2Model ----
(***************************************************************************)
(* Model of the JSON-LD helper library (index.ts): eight schema builders,  *)
(* createJsonLdScript and mergeSchemas.                                    *)
(*                                                                         *)
(* JavaScript values are tagged records [t, v]:                            *)
(*   undefined, null, boolean, string, number, array, object.              *)
(* An object is an ordered sequence of entries [k, v] (property insertion  *)
(* order); a string is a TLA+ string; a finite number is an integer count  *)
(* of sixteenths (so 0.0625 is 1, 29.9375 is 479), which are exactly       *)
(* representable binary fractions; NaN, +-Infinity and 1e21 are kinds of   *)
(* their own.                                                              *)
(***************************************************************************)
EXTENDS Integers, Sequences, FiniteSets, TLC

VARIABLES op, arg, ret, live, touched

vars == <<op, arg, ret, live, touched>>

\* ------------------------------------------------------------------------
\* Bounds of the model
\* ------------------------------------------------------------------------

\* Longest input sequence (faqs, breadcrumb items, reviews, schemas).
MaxItems == 2

\* Largest finite price magnitude, in sixteenths.
MaxPrice == 20

\* Sixteenths per unit: finite numbers carry four binary fraction digits.
Scale == 2 * 2 * 2 * 2

\* ------------------------------------------------------------------------
\* JavaScript values
\* ------------------------------------------------------------------------

Undefined == [t |-> "undefined", v |-> 0]

Null == [t |-> "null", v |-> 0]

Bool(b) == [t |-> "boolean", v |-> b]

Str(s) == [t |-> "string", v |-> s]

\* A finite number of n sixteenths.
Num(n) == [t |-> "number", v |-> [k |-> "finite", n |-> n]]

\* An integer-valued number.
Int16(i) == Num(i * Scale)

NaN == [t |-> "number", v |-> [k |-> "NaN", n |-> 0]]

PosInfinity == [t |-> "number", v |-> [k |-> "Infinity", n |-> 1]]

NegInfinity == [t |-> "number", v |-> [k |-> "Infinity", n |-> -1]]

\* The number 1e21, the least magnitude toFixed prints in exponent form.
Num1e21 == [t |-> "number", v |-> [k |-> "1e21", n |-> 1]]

Arr(xs) == [t |-> "array", v |-> xs]

Obj(entries) == [t |-> "object", v |-> entries]

P(k, v) == [k |-> k, v |-> v]

\* ToBoolean: the truthiness the builders' `if (x)` and `a && b` rely on.
Truthy(x) ==
  CASE x.t = "undefined" -> FALSE
    [] x.t = "null" -> FALSE
    [] x.t = "boolean" -> x.v
    [] x.t = "string" -> x.v # ""
    [] x.t = "number" -> ~(x.v.k = "NaN" \/ (x.v.k = "finite" /\ x.v.n = 0))
    [] OTHER -> TRUE

IsUndefined(x) == x.t = "undefined"

\* An object literal of the caller: the absent optional fields left out.
Rec(entries) == Obj(SelectSeq(entries, LAMBDA e : ~IsUndefined(e.v)))

\* `key in obj`: the object has an own property of that name.
HasKey(o, key) == \E i \in 1..Len(o.v) : o.v[i].k = key

\* obj[key]: the property's value, undefined when there is none.
Get(o, key) ==
  IF HasKey(o, key)
  THEN o.v[CHOOSE i \in 1..Len(o.v) : o.v[i].k = key].v
  ELSE Undefined

\* obj[key] = val: replaces in place, or appends a new property.
Put(o, key, val) ==
  IF HasKey(o, key)
  THEN Obj([i \in 1..Len(o.v) |->
             IF o.v[i].k = key THEN P(key, val) ELSE o.v[i]])
  ELSE Obj(Append(o.v, P(key, val)))

\* if (cond) obj[key] = val
PutIf(cond, o, key, val) == IF cond THEN Put(o, key, val) ELSE o

\* The property names of an object, in order.
Keys(o) == [i \in 1..Len(o.v) |-> o.v[i].k]

\* ------------------------------------------------------------------------
\* Number formatting
\* ------------------------------------------------------------------------

Digit(d) == SubSeq("0123456789", d + 1, d + 1)

\* The decimal digits of a natural number.
RECURSIVE NatToString(_)
NatToString(n) ==
  IF n < 10 THEN Digit(n) ELSE NatToString(n \div 10) \o Digit(n % 10)

Abs(n) == IF n < 0 THEN -n ELSE n

RECURSIVE StripZeros(_)
StripZeros(s) ==
  IF Len(s) > 0 /\ SubSeq(s, Len(s), Len(s)) = "0"
  THEN StripZeros(SubSeq(s, 1, Len(s) - 1))
  ELSE s

PadLeft(s, width) ==
  LET RECURSIVE pad(_)
      pad(x) == IF Len(x) < width THEN pad("0" \o x) ELSE x
  IN pad(s)

\* Number::toString of a number value (radix 10).
NumberToString(x) ==
  CASE x.v.k = "NaN" -> "NaN"
    [] x.v.k = "Infinity" -> IF x.v.n < 0 THEN "-Infinity" ELSE "Infinity"
    [] x.v.k = "1e21" -> "1e+21"
    [] OTHER ->
        LET a == Abs(x.v.n)
            frac == StripZeros(PadLeft(NatToString((a % Scale) * 625), 4))
        IN (IF x.v.n < 0 THEN "-" ELSE "")
             \o NatToString(a \div Scale)
             \o (IF frac = "" THEN "" ELSE "." \o frac)

\* A toFixed that cuts the digits off instead of rounding.
ToFixedRoundTruncating(a) == (100 * a) \div Scale

\* toFixed's integer n for which n / 100 - x is closest to zero, the larger
\* of two equally close ones; a is x in sixteenths, a >= 0.
ToFixedRound(a) == (200 * a + Scale) \div (2 * Scale)

\* Number.prototype.toFixed(2)
ToFixed2(x) ==
  IF x.v.k # "finite"
  THEN NumberToString(x)
  ELSE LET a == Abs(x.v.n)
           m == PadLeft(NatToString(ToFixedRound(a)), 3)
       IN (IF x.v.n < 0 THEN "-" ELSE "")
            \o SubSeq(m, 1, Len(m) - 2) \o "." \o SubSeq(m, Len(m) - 1, Len(m))

\* ------------------------------------------------------------------------
\* Builders
\* ------------------------------------------------------------------------

SchemaOrg == "https://schema.org"

\* The two keys with the http form of the context URL.
BaseHttp(type) == <<P("@context", Str("http://schema.org")), P("@type", type)>>

\* The two keys every schema literal starts with.
Base(type) == <<P("@context", Str(SchemaOrg)), P("@type", type)>>

\* An enumeration value left as it is, without the schema.org prefix.
SchemaOrgUrlBare(value) == value

\* `https://schema.org/${value}`
SchemaOrgUrl(value) == Str(SchemaOrg \o "/" \o value.v)

\* --- createOrganizationSchema -----------------------------------------

\* The optional fields copied whenever they are not undefined.
OrganizationFieldsWhenDefined(schema, organization) ==
  LET f(s, from, to) ==
        PutIf(~IsUndefined(Get(organization, from)), s, to, Get(organization, from))
      s1 == f(schema, "id", "@id")
      s2 == f(s1, "description", "description")
      s3 == f(s2, "telephone", "telephone")
      s4 == f(s3, "email", "email")
      s5 == f(s4, "priceRange", "priceRange")
      s6 == f(s5, "image", "image")
      s7 == f(s6, "logo", "logo")
      sameAs == Get(organization, "sameAs")
  IN PutIf(Truthy(sameAs) /\ Len(sameAs.v) > 0, s7, "sameAs", sameAs)

\* The optional fields copied with sameAs tested for presence only.
OrganizationFieldsAnySameAs(schema, organization) ==
  LET f(s, from, to) ==
        PutIf(Truthy(Get(organization, from)), s, to, Get(organization, from))
      s1 == f(schema, "id", "@id")
      s2 == f(s1, "description", "description")
      s3 == f(s2, "telephone", "telephone")
      s4 == f(s3, "email", "email")
      s5 == f(s4, "priceRange", "priceRange")
      s6 == f(s5, "image", "image")
      s7 == f(s6, "logo", "logo")
      sameAs == Get(organization, "sameAs")
  IN PutIf(Truthy(sameAs), s7, "sameAs", sameAs)

\* if (organization.x) schema.x = organization.x, for the optional fields
OrganizationFields(schema, organization) ==
  LET f(s, from, to) ==
        PutIf(Truthy(Get(organization, from)), s, to, Get(organization, from))
      s1 == f(schema, "id", "@id")
      s2 == f(s1, "description", "description")
      s3 == f(s2, "telephone", "telephone")
      s4 == f(s3, "email", "email")
      s5 == f(s4, "priceRange", "priceRange")
      s6 == f(s5, "image", "image")
      s7 == f(s6, "logo", "logo")
      sameAs == Get(organization, "sameAs")
  IN PutIf(Truthy(sameAs) /\ Len(sameAs.v) > 0, s7, "sameAs", sameAs)

GeoCircleOf(areaServed) ==
  Obj(<<P("@type", Str("GeoCircle")),
        P("geoMidpoint",
          Obj(<<P("@type", Str("GeoCoordinates")),
                P("latitude", Get(Get(areaServed, "geoMidpoint"), "latitude")),
                P("longitude", Get(Get(areaServed, "geoMidpoint"), "longitude"))>>)),
        P("geoRadius", Get(areaServed, "geoRadius"))>>)

CityOf(areaServed) ==
  Obj(<<P("@type", Str("City")), P("name", Get(areaServed, "city"))>>)

\* The service-area block with the city tested before the circle.
OrganizationAreaServedCityFirst(schema, areaServed) ==
  IF Truthy(areaServed)
  THEN IF Truthy(Get(areaServed, "city"))
       THEN Put(schema, "areaServed", CityOf(areaServed))
       ELSE IF Truthy(Get(areaServed, "geoMidpoint")) /\ Truthy(Get(areaServed, "geoRadius"))
            THEN Put(schema, "areaServed", GeoCircleOf(areaServed))
            ELSE schema
  ELSE schema

\* The service-area block with a plain else for the city.
OrganizationAreaServedElseCity(schema, areaServed) ==
  IF Truthy(areaServed)
  THEN IF Truthy(Get(areaServed, "geoMidpoint")) /\ Truthy(Get(areaServed, "geoRadius"))
       THEN Put(schema, "areaServed", GeoCircleOf(areaServed))
       ELSE Put(schema, "areaServed", CityOf(areaServed))
  ELSE schema

\* The "Add service area" block.
OrganizationAreaServed(schema, areaServed) ==
  IF Truthy(areaServed)
  THEN IF Truthy(Get(areaServed, "geoMidpoint")) /\ Truthy(Get(areaServed, "geoRadius"))
       THEN Put(schema, "areaServed", GeoCircleOf(areaServed))
       ELSE IF Truthy(Get(areaServed, "city"))
            THEN Put(schema, "areaServed", CityOf(areaServed))
            ELSE schema
  ELSE schema

HoursSpecificationOf(ohs) ==
  Obj(<<P("@type", Str("OpeningHoursSpecification")),
        P("dayOfWeek", Get(ohs, "dayOfWeek")),
        P("opens", Get(ohs, "opens")),
        P("closes", Get(ohs, "closes"))>>)

\* The opening-hours block with two independent ifs instead of else-if.
OrganizationOpeningHoursBoth(schema, ohs) ==
  IF Truthy(ohs)
  THEN LET s1 == PutIf(Truthy(Get(ohs, "open24Hours")), schema,
                       "openingHours", Str("Mo-Su"))
       IN PutIf(/\ Truthy(Get(ohs, "dayOfWeek"))
                /\ Truthy(Get(ohs, "opens"))
                /\ Truthy(Get(ohs, "closes")),
                s1, "openingHoursSpecification", HoursSpecificationOf(ohs))
  ELSE schema

\* The opening-hours block that forgets to test closes.
OrganizationOpeningHoursNoCloses(schema, ohs) ==
  IF Truthy(ohs)
  THEN IF Truthy(Get(ohs, "open24Hours"))
       THEN Put(schema, "openingHours", Str("Mo-Su"))
       ELSE IF Truthy(Get(ohs, "dayOfWeek")) /\ Truthy(Get(ohs, "opens"))
            THEN Put(schema, "openingHoursSpecification", HoursSpecificationOf(ohs))
            ELSE schema
  ELSE schema

\* The "Add opening hours" block.
OrganizationOpeningHours(schema, ohs) ==
  IF Truthy(ohs)
  THEN IF Truthy(Get(ohs, "open24Hours"))
       THEN Put(schema, "openingHours", Str("Mo-Su"))
       ELSE IF /\ Truthy(Get(ohs, "dayOfWeek"))
               /\ Truthy(Get(ohs, "opens"))
               /\ Truthy(Get(ohs, "closes"))
            THEN Put(schema, "openingHoursSpecification", HoursSpecificationOf(ohs))
            ELSE schema
  ELSE schema

createOrganizationSchema(options) ==
  LET organization == Get(options, "organization")
      type == IF IsUndefined(Get(options, "type"))
              THEN Str("LocalBusiness")
              ELSE Get(options, "type")
      s0 == Obj(Base(type) \o <<P("name", Get(organization, "name")),
                                 P("url", Get(organization, "url"))>>)
      s1 == OrganizationFields(s0, organization)
      s2 == OrganizationAreaServed(s1, Get(options, "areaServed"))
  IN OrganizationOpeningHours(s2, Get(options, "openingHoursSpecification"))

\* --- createFAQSchema ----------------------------------------------------

\* A Question that takes its name from the answer.
QuestionOfAnswer(faq, index) ==
  Obj(<<P("@type", Str("Question")),
        P("name", Get(faq, "answer")),
        P("acceptedAnswer",
          Obj(<<P("@type", Str("Answer")), P("text", Get(faq, "answer"))>>))>>)

QuestionOf(faq, index) ==
  Obj(<<P("@type", Str("Question")),
        P("name", Get(faq, "question")),
        P("acceptedAnswer",
          Obj(<<P("@type", Str("Answer")), P("text", Get(faq, "answer"))>>))>>)

createFAQSchema(faqs) ==
  Obj(Base(Str("FAQPage")) \o <<P("mainEntity",
        \* faqs.map((faq) => ...)
        Arr([i \in 1..Len(faqs.v) |-> QuestionOf(faqs.v[i], i - 1)]))>>)

\* --- createBreadcrumbSchema ---------------------------------------------

\* A ListItem numbered from zero.
ListItemOfZeroBased(item, index) ==
  Obj(<<P("@type", Str("ListItem")),
        P("position", Int16(index)),
        P("name", Get(item, "name")),
        P("item", Get(item, "url"))>>)

ListItemOf(item, index) ==
  Obj(<<P("@type", Str("ListItem")),
        P("position", Int16(index + 1)),
        P("name", Get(item, "name")),
        P("item", Get(item, "url"))>>)

\* A builder that numbers on from where the previous call stopped, as one
\* with a counter kept between calls would.
createBreadcrumbSchemaCounting(items) ==
  LET offset == IF ret.t = "object" THEN Len(ret.v) ELSE 0
  IN Obj(Base(Str("BreadcrumbList")) \o <<P("itemListElement",
           Arr([i \in 1..Len(items.v) |-> ListItemOf(items.v[i], i - 1 + offset)]))>>)

createBreadcrumbSchema(items) ==
  Obj(Base(Str("BreadcrumbList")) \o <<P("itemListElement",
        \* items.map((item, index) => ...)
        Arr([i \in 1..Len(items.v) |-> ListItemOf(items.v[i], i - 1)]))>>)

\* --- createProductSchema ------------------------------------------------

\* The offers guard written as `price && priceCurrency`.
OffersGuardTruthyPrice(price, priceCurrency) == Truthy(price) /\ Truthy(priceCurrency)

\* price !== undefined && priceCurrency
OffersGuard(price, priceCurrency) == ~IsUndefined(price) /\ Truthy(priceCurrency)

\* An Offer that gets its availability key only when there is a value.
OfferOfOmittingAvailability(price, priceCurrency, availability) ==
  PutIf(Truthy(availability),
        Obj(<<P("@type", Str("Offer")),
              P("price", Str(ToFixed2(price))),
              P("priceCurrency", priceCurrency)>>),
        "availability", SchemaOrgUrl(availability))

\* schema.offers = { '@type': 'Offer', price, priceCurrency, availability }
OfferOf(price, priceCurrency, availability) ==
  Obj(<<P("@type", Str("Offer")),
        P("price", Str(ToFixed2(price))),
        P("priceCurrency", priceCurrency),
        P("availability",
          IF Truthy(availability)
          THEN SchemaOrgUrl(availability)
          ELSE Undefined)>>)

createProductSchema(options) ==
  LET image == Get(options, "image")
      url == Get(options, "url")
      brand == Get(options, "brand")
      sku == Get(options, "sku")
      price == Get(options, "price")
      priceCurrency == Get(options, "priceCurrency")
      s0 == Obj(Base(Str("Product")) \o
                <<P("name", Get(options, "name")),
                  P("description", Get(options, "description"))>>)
      s1 == PutIf(Truthy(image), s0, "image", image)
      s2 == PutIf(Truthy(url), s1, "url", url)
      s3 == PutIf(Truthy(brand), s2, "brand",
                  Obj(<<P("@type", Str("Brand")), P("name", brand)>>))
      s4 == PutIf(Truthy(sku), s3, "sku", sku)
  IN PutIf(OffersGuard(price, priceCurrency), s4, "offers",
           OfferOf(price, priceCurrency, Get(options, "availability")))

\* --- createServiceSchema ------------------------------------------------

\* A provider record that also carries the provider's optional fields.
ProviderOfWithFields(provider) ==
  OrganizationFields(Obj(<<P("@type", Str("LocalBusiness")),
                           P("name", Get(provider, "name")),
                           P("url", Get(provider, "url"))>>), provider)

\* provider: { '@type': 'LocalBusiness', name: provider.name, url: provider.url }
ProviderOf(provider) ==
  Obj(<<P("@type", Str("LocalBusiness")),
        P("name", Get(provider, "name")),
        P("url", Get(provider, "url"))>>)

\* What a call ends in when it reads a property of undefined.
TypeError == [t |-> "error", v |-> "TypeError"]

\* The service area read as areaServed.city, without the optional chaining.
ServiceAreaServedUnchained(schema, areaServed) ==
  IF IsUndefined(areaServed)
  THEN TypeError
  ELSE PutIf(Truthy(Get(areaServed, "city")), schema, "areaServed",
             CityOf(areaServed))

\* The service area handled as the organization builder handles it.
ServiceAreaServedWithCircle(schema, areaServed) ==
  OrganizationAreaServed(schema, areaServed)

\* if (areaServed?.city) schema.areaServed = { '@type': 'City', ... }
ServiceAreaServed(schema, areaServed) ==
  PutIf(Truthy(areaServed) /\ Truthy(Get(areaServed, "city")),
        schema, "areaServed", CityOf(areaServed))

createServiceSchema(options) ==
  LET image == Get(options, "image")
      serviceType == Get(options, "serviceType")
      s0 == Obj(Base(Str("Service")) \o
                <<P("name", Get(options, "name")),
                  P("description", Get(options, "description")),
                  P("url", Get(options, "url")),
                  P("provider", ProviderOf(Get(options, "provider")))>>)
      s1 == PutIf(Truthy(image), s0, "image", image)
      s2 == PutIf(Truthy(serviceType), s1, "serviceType", serviceType)
  IN ServiceAreaServed(s2, Get(options, "areaServed"))

\* --- createReviewSchema -------------------------------------------------

\* A default that replaces every falsy value, as `x || d` would.
DefaultWhenFalsy(x, d) == IF Truthy(x) THEN x ELSE d

\* A destructuring default: used only when the property is undefined.
Default(x, d) == IF IsUndefined(x) THEN d ELSE x

\* A review entry whose rating is capped at bestRating.
ReviewOfCapped(review, bestRating, worstRating) ==
  LET rating == Get(review, "reviewRating")
  IN Obj(<<P("@type", Str("Review")),
           P("author", Obj(<<P("@type", Str("Person")),
                             P("name", Get(review, "author"))>>)),
           P("reviewBody", Get(review, "reviewBody")),
           P("reviewRating",
             Obj(<<P("@type", Str("Rating")),
                   P("ratingValue",
                     IF rating.v.n > bestRating.v.n THEN bestRating ELSE rating),
                   P("bestRating", bestRating),
                   P("worstRating", worstRating)>>)),
           P("datePublished", Get(review, "datePublished"))>>)

\* A review entry whose Rating always carries the default scale.
ReviewOfDefaultScale(review, bestRating, worstRating) ==
  Obj(<<P("@type", Str("Review")),
        P("author", Obj(<<P("@type", Str("Person")),
                          P("name", Get(review, "author"))>>)),
        P("reviewBody", Get(review, "reviewBody")),
        P("reviewRating",
          Obj(<<P("@type", Str("Rating")),
                P("ratingValue", Get(review, "reviewRating")),
                P("bestRating", Int16(5)),
                P("worstRating", Int16(1))>>)),
        P("datePublished", Get(review, "datePublished"))>>)

\* The callback of reviews.map
ReviewOf(review, bestRating, worstRating) ==
  Obj(<<P("@type", Str("Review")),
        P("author", Obj(<<P("@type", Str("Person")),
                          P("name", Get(review, "author"))>>)),
        P("reviewBody", Get(review, "reviewBody")),
        P("reviewRating",
          Obj(<<P("@type", Str("Rating")),
                P("ratingValue", Get(review, "reviewRating")),
                P("bestRating", bestRating),
                P("worstRating", worstRating)>>)),
        P("datePublished", Get(review, "datePublished"))>>)

createReviewSchema(options) ==
  LET bestRating == Default(Get(options, "bestRating"), Int16(5))
      worstRating == Default(Get(options, "worstRating"), Int16(1))
      reviews == Get(options, "reviews")
  IN Obj(Base(Str("LocalBusiness")) \o
         <<P("name", Get(Get(options, "organization"), "name")),
           P("aggregateRating",
             Obj(<<P("@type", Str("AggregateRating")),
                   P("ratingValue", Get(options, "ratingValue")),
                   P("reviewCount", Get(options, "reviewCount")),
                   P("bestRating", bestRating),
                   P("worstRating", worstRating)>>)),
           P("review",
             \* reviews.map((review) => ...)
             Arr([i \in 1..Len(reviews.v) |->
                    ReviewOf(reviews.v[i], bestRating, worstRating)]))>>)

\* --- createArticleSchema ------------------------------------------------

\* A publisher record whose logo is always an ImageObject.
PublisherOfAlwaysLogo(publisher, publisherLogo) ==
  Obj(<<P("@type", Str("Organization")),
        P("name", publisher),
        P("logo", Obj(<<P("@type", Str("ImageObject")),
                        P("url", publisherLogo)>>))>>)

\* publisher: { '@type': 'Organization', name: publisher, logo: ... }
PublisherOf(publisher, publisherLogo) ==
  Obj(<<P("@type", Str("Organization")),
        P("name", publisher),
        P("logo",
          IF Truthy(publisherLogo)
          THEN Obj(<<P("@type", Str("ImageObject")), P("url", publisherLogo)>>)
          ELSE Undefined)>>)

\* mainEntityOfPage written only when a dateModified came with the url.
ArticleMainEntityWithModified(schema, url) ==
  PutIf(Truthy(url) /\ HasKey(schema, "dateModified"), schema, "mainEntityOfPage",
        Obj(<<P("@type", Str("WebPage")), P("@id", url)>>))

\* if (url) schema.mainEntityOfPage = { '@type': 'WebPage', '@id': url }
ArticleMainEntity(schema, url) ==
  PutIf(Truthy(url), schema, "mainEntityOfPage",
        Obj(<<P("@type", Str("WebPage")), P("@id", url)>>))

createArticleSchema(options) ==
  LET description == Get(options, "description")
      image == Get(options, "image")
      dateModified == Get(options, "dateModified")
      s0 == Obj(Base(Str("Article")) \o
                <<P("headline", Get(options, "headline")),
                  P("datePublished", Get(options, "datePublished")),
                  P("author", Obj(<<P("@type", Str("Person")),
                                    P("name", Get(options, "author"))>>)),
                  P("publisher", PublisherOf(Get(options, "publisher"),
                                             Get(options, "publisherLogo")))>>)
      s1 == PutIf(Truthy(description), s0, "description", description)
      s2 == PutIf(Truthy(image), s1, "image", image)
      s3 == PutIf(Truthy(dateModified), s2, "dateModified", dateModified)
  IN ArticleMainEntity(s3, Get(options, "url"))

\* --- createEventSchema --------------------------------------------------

\* A Place that always nests a PostalAddress.
PlaceOfAlwaysAddress(location) ==
  Obj(<<P("@type", Str("Place")),
        P("name", Get(location, "name")),
        P("address", Obj(<<P("@type", Str("PostalAddress")),
                           P("streetAddress", Get(location, "address"))>>))>>)

\* schema.location = { '@type': 'Place', name: location.name, address: ... }
PlaceOf(location) ==
  Obj(<<P("@type", Str("Place")),
        P("name", Get(location, "name")),
        P("address",
          IF Truthy(Get(location, "address"))
          THEN Obj(<<P("@type", Str("PostalAddress")),
                     P("streetAddress", Get(location, "address"))>>)
          ELSE Undefined)>>)

createEventSchema(options) ==
  LET description == Get(options, "description")
      endDate == Get(options, "endDate")
      location == Get(options, "location")
      url == Get(options, "url")
      image == Get(options, "image")
      eventStatus == Get(options, "eventStatus")
      eventAttendanceMode == Get(options, "eventAttendanceMode")
      s0 == Obj(Base(Str("Event")) \o
                <<P("name", Get(options, "name")),
                  P("startDate", Get(options, "startDate"))>>)
      s1 == PutIf(Truthy(description), s0, "description", description)
      s2 == PutIf(Truthy(endDate), s1, "endDate", endDate)
      s3 == PutIf(Truthy(location), s2, "location", PlaceOf(location))
      s4 == PutIf(Truthy(url), s3, "url", url)
      s5 == PutIf(Truthy(image), s4, "image", image)
      s6 == PutIf(Truthy(eventStatus), s5, "eventStatus",
                  SchemaOrgUrl(eventStatus))
  IN PutIf(Truthy(eventAttendanceMode), s6, "eventAttendanceMode",
           SchemaOrgUrl(eventAttendanceMode))

\* ------------------------------------------------------------------------
\* JSON text: JSON.stringify as createJsonLdScript uses it
\* ------------------------------------------------------------------------

\* The character at position i of s, "" past its end.
Ch(s, i) == IF i >= 1 /\ i <= Len(s) THEN SubSeq(s, i, i) ELSE ""

\* An escape that leaves the backslash alone.
QuoteCharNoBackslash(c) ==
  CASE c = "\"" -> "\\\""
    [] c = "\n" -> "\\n"
    [] c = "\r" -> "\\r"
    [] c = "\t" -> "\\t"
    [] c = "\f" -> "\\f"
    [] OTHER -> c

\* The escape of one character inside a JSON string.
QuoteChar(c) ==
  CASE c = "\"" -> "\\\""
    [] c = "\\" -> "\\\\"
    [] c = "\n" -> "\\n"
    [] c = "\r" -> "\\r"
    [] c = "\t" -> "\\t"
    [] c = "\f" -> "\\f"
    [] OTHER -> c

\* QuoteJSONString
RECURSIVE QuoteFrom(_, _)
QuoteFrom(s, i) ==
  IF i > Len(s) THEN "" ELSE QuoteChar(Ch(s, i)) \o QuoteFrom(s, i + 1)

Quote(s) == "\"" \o QuoteFrom(s, 1) \o "\""

\* The texts of xs joined by commas.
RECURSIVE Join(_)
Join(xs) ==
  IF Len(xs) = 0 THEN ""
  ELSE IF Len(xs) = 1 THEN xs[1]
  ELSE xs[1] \o "," \o Join(Tail(xs))

\* SerializeJSONProperty: a property whose value is undefined is left out
\* of an object and written as null in an array; a number that is not
\* finite is written as null.
RECURSIVE Stringify(_)
Stringify(x) ==
  CASE x.t = "string" -> Quote(x.v)
    [] x.t = "number" ->
         IF x.v.k \in {"NaN", "Infinity"} THEN "null" ELSE NumberToString(x)
    [] x.t = "boolean" -> IF x.v THEN "true" ELSE "false"
    [] x.t = "null" -> "null"
    [] x.t = "array" ->
         "[" \o Join([i \in 1..Len(x.v) |->
                        IF IsUndefined(x.v[i]) THEN "null" ELSE Stringify(x.v[i])])
             \o "]"
    [] x.t = "object" ->
         LET kept == SelectSeq(x.v, LAMBDA e : ~IsUndefined(e.v))
         IN "{" \o Join([i \in 1..Len(kept) |->
                           Quote(kept[i].k) \o ":" \o Stringify(kept[i].v)])
                \o "}"

\* A serializer that writes a property holding undefined as null.
RECURSIVE StringifyKeepingKeys(_)
StringifyKeepingKeys(x) ==
  CASE x.t = "array" ->
         "[" \o Join([i \in 1..Len(x.v) |-> StringifyKeepingKeys(x.v[i])]) \o "]"
    [] x.t = "object" ->
         "{" \o Join([i \in 1..Len(x.v) |->
                        Quote(x.v[i].k) \o ":" \o StringifyKeepingKeys(x.v[i].v)])
             \o "}"
    [] x.t = "undefined" -> "null"
    [] OTHER -> Stringify(x)

createJsonLdScriptKeepingKeys(schema) == Str(StringifyKeepingKeys(schema))

\* A serializer that wraps a single record in an array.
createJsonLdScriptWrapped(schema) ==
  Str(Stringify(IF schema.t = "array" THEN schema ELSE Arr(<<schema>>)))

\* JSON.stringify(Array.isArray(schema) ? schema : schema)
createJsonLdScript(schema) ==
  Str(Stringify(IF schema.t = "array" THEN schema ELSE schema))

\* A merge that hands the schemas back in reverse order.
mergeSchemasReversed(schemas) ==
  Arr([i \in 1..Len(schemas.v) |-> schemas.v[Len(schemas.v) + 1 - i]])

\* return schemas
mergeSchemas(schemas) == schemas

\* ------------------------------------------------------------------------
\* Inputs: what a caller of the declared types can pass
\* ------------------------------------------------------------------------

Opt(S) == {Undefined} \cup S

\* The sequences over S of length at most n, as arrays.
ArraysUpTo(S, n) == {Arr(xs) : xs \in UNION {[1..k -> S] : k \in 0..n}}

Prices ==
  {Num(n) : n \in (-MaxPrice)..MaxPrice} \cup
  {Num(479), Num(16000), NaN, PosInfinity, NegInfinity, Num1e21}

Availabilities ==
  {Str(a) : a \in {"InStock", "OutOfStock", "PreOrder", "Backorder",
                   "LimitedAvailability"}}

MkProduct(description, image, url, brand, sku, price, priceCurrency, availability) ==
  Rec(<<P("name", Str("Widget")), P("description", description),
        P("image", image), P("url", url), P("brand", brand), P("sku", sku),
        P("price", price), P("priceCurrency", priceCurrency),
        P("availability", availability)>>)

ProductOptions ==
  {MkProduct(Str("A widget"), Undefined, Undefined, Undefined, Undefined,
             price, priceCurrency, availability) :
     price \in Opt(Prices),
     priceCurrency \in Opt({Str(""), Str("USD")}),
     availability \in Opt({Str("InStock")})}
  \cup
  {MkProduct(Str(""), image, url, brand, sku, price, Str("EUR"), availability) :
     image \in Opt({Str(""), Str("https://x.io/a.jpg"),
                    Arr(<<Str("https://x.io/a.jpg"), Str("https://x.io/b.jpg")>>)}),
     url \in Opt({Str("https://x.io/w")}),
     brand \in Opt({Str("Acme")}),
     sku \in Opt({Str("W-1")}),
     price \in Opt({Num(0)}),
     availability \in Opt(Availabilities)}

FAQItems ==
  {Rec(<<P("question", Str(q)), P("answer", Str(a))>>) :
     q \in {"Q1?", "What is \"CSRF\"?"}, a \in {"A1", ""}}

BreadcrumbItems ==
  {Rec(<<P("name", Str(n)), P("url", Str(u))>>) :
     n \in {"Home", "Products"}, u \in {"https://x.io", "https://x.io/p?f=a<1"}}

GeoPoints ==
  {Rec(<<P("latitude", Num(652)), P("longitude", Num(-1184))>>),
   Rec(<<P("latitude", Num(0)), P("longitude", Num(0))>>)}

ServiceAreas ==
  {Rec(<<P("geoMidpoint", m), P("geoRadius", r), P("city", c),
         P("region", rc[1]), P("country", rc[2])>>) :
     m \in Opt(GeoPoints),
     r \in Opt({Str(""), Str("30km")}),
     c \in Opt({Str(""), Str("Paris")}),
     rc \in {<<Undefined, Undefined>>, <<Str("California"), Str("USA")>>}}

DayLists == {Arr(<<>>), Arr(<<Str("Monday"), Str("Friday")>>)}

OpeningHoursSet ==
  {Rec(<<P("dayOfWeek", d), P("opens", o), P("closes", c), P("open24Hours", h)>>) :
     d \in Opt(DayLists),
     o \in Opt({Str(""), Str("09:00")}),
     c \in Opt({Str(""), Str("17:00")}),
     h \in Opt({Bool(FALSE), Bool(TRUE)})}

OrgBare == Rec(<<P("name", Str("Test")), P("url", Str("https://test.com"))>>)

OrgFull ==
  Rec(<<P("name", Str("My Business")), P("description", Str("A business")),
        P("url", Str("https://mybusiness.com")),
        P("logo", Str("https://mybusiness.com/logo.png")),
        P("image", Str("https://mybusiness.com/image.jpg")),
        P("telephone", Str("+1-555-123-4567")),
        P("email", Str("info@mybusiness.com")),
        P("priceRange", Str("$$")),
        P("sameAs", Arr(<<Str("https://twitter.com/b"), Str("https://facebook.com/b")>>)),
        P("id", Str("https://mybusiness.com/#org"))>>)

\* The optional string fields of OrganizationInfo.
OrgStringFields ==
  {"id", "description", "telephone", "email", "priceRange", "image", "logo"}

\* The bare organization with one optional field more: a string field that
\* is empty or not, or a sameAs list that is empty or not.
OrgVariants ==
  {Put(OrgBare, f, v) : f \in OrgStringFields, v \in {Str(""), Str("x")}}
  \cup
  {Put(OrgBare, "sameAs", l) :
     l \in {Arr(<<>>), Arr(<<Str("https://twitter.com/b")>>)}}

MkOrganization(organization, areaServed, ohs, type) ==
  Rec(<<P("organization", organization), P("areaServed", areaServed),
        P("openingHoursSpecification", ohs), P("type", type)>>)

OrganizationOptions ==
  {MkOrganization(o, a, Undefined, t) :
     o \in {OrgBare, OrgFull}, a \in Opt(ServiceAreas),
     t \in Opt({Str(""), Str("Organization")})}
  \cup
  {MkOrganization(OrgBare, a, h, Undefined) :
     a \in {Undefined,
            Rec(<<P("geoMidpoint", Rec(<<P("latitude", Num(652)),
                                          P("longitude", Num(-1184))>>)),
                  P("geoRadius", Str("30km")), P("city", Str("Paris"))>>)},
     h \in Opt(OpeningHoursSet)}
  \cup
  {MkOrganization(o, Undefined, Undefined, Undefined) : o \in OrgVariants}

ServiceOptions ==
  {Rec(<<P("name", Str("Web Development")), P("description", Str("Websites")),
         P("url", Str("https://agency.io/web")), P("image", image),
         P("provider", provider), P("serviceType", serviceType),
         P("areaServed", areaServed)>>) :
     image \in Opt({Str("https://agency.io/web.jpg")}),
     provider \in {OrgBare, OrgFull},
     serviceType \in Opt({Str(""), Str("Professional Service")}),
     areaServed \in Opt({a \in ServiceAreas : ~HasKey(a, "region")})}

ReviewItems ==
  {Rec(<<P("author", Str(a)), P("reviewBody", Str("Great!")),
         P("reviewRating", r), P("datePublished", Str("2024-01-15"))>>) :
     a \in {"John"}, r \in {Int16(5), Int16(0), Num(152)}}

ReviewOptions ==
  {Rec(<<P("organization", organization), P("reviewCount", reviewCount),
         P("ratingValue", Num(72)), P("bestRating", bestRating),
         P("worstRating", worstRating), P("reviews", reviews)>>) :
     organization \in {OrgBare, OrgFull},
     reviewCount \in {Int16(0), Int16(150)},
     bestRating \in Opt({Int16(0), Int16(10)}),
     worstRating \in Opt({Int16(0)}),
     reviews \in ArraysUpTo(ReviewItems, MaxItems)}

ArticleOptions ==
  {Rec(<<P("headline", Str("How to")), P("description", description),
         P("image", image), P("datePublished", Str("2024-01-15")),
         P("dateModified", dateModified), P("author", Str("Jane Smith")),
         P("publisher", Str("Tech Blog")), P("publisherLogo", publisherLogo),
         P("url", url)>>) :
     description \in Opt({Str(""), Str("A guide")}),
     image \in Opt({Str("https://blog.io/a.jpg")}),
     dateModified \in Opt({Str("2024-01-20")}),
     publisherLogo \in Opt({Str(""), Str("https://blog.io/logo.png")}),
     url \in Opt({Str(""), Str("https://blog.io/how-to")})}

EventStatuses ==
  {Str(x) : x \in {"EventScheduled", "EventCancelled", "EventPostponed",
                   "EventRescheduled"}}

EventAttendanceModes ==
  {Str(x) : x \in {"OfflineEventAttendanceMode", "OnlineEventAttendanceMode",
                   "MixedEventAttendanceMode"}}

EventLocations ==
  {Rec(<<P("name", Str("Convention Center")), P("address", a)>>) :
     a \in Opt({Str(""), Str("123 Main St")})}

EventOptions ==
  {Rec(<<P("name", Str("Tech Conference")), P("description", description),
         P("startDate", Str("2024-06-15T09:00:00Z")), P("endDate", endDate),
         P("location", location), P("url", url), P("image", Undefined),
         P("eventStatus", eventStatus),
         P("eventAttendanceMode", eventAttendanceMode)>>) :
     description \in Opt({Str("Annual conference")}),
     endDate \in Opt({Str("2024-06-17T18:00:00Z")}),
     location \in Opt(EventLocations),
     url \in Opt({Str("https://conf.io")}),
     eventStatus \in Opt(EventStatuses),
     eventAttendanceMode \in Opt(EventAttendanceModes)}
  \cup
  {Rec(<<P("name", Str("")), P("startDate", Str("2024-06-15")),
         P("image", image)>>) :
     image \in {Str(""), Str("https://conf.io/e.jpg")}}

\* Texts with markup-like characters, quotes, a backslash, a line break and
\* non-ASCII letters (which stand for every character JSON.stringify copies
\* unchanged: accented and non-Latin letters, emoji).
SpecialTexts ==
  {"", "Test & Sons \"Company\" <t@x.io>", "a\\b\nc", "</script>",
   "éàü ñ"}

LiteralValues ==
  {Str(x) : x \in SpecialTexts} \cup
  {Num(-24), Num(0), Num(1599), Bool(TRUE), Bool(FALSE), Null,
   Arr(<<>>), Arr(<<Str("a\"b"), Num(8), Null>>), Obj(<<>>),
   Obj(<<P("@type", Str("Offer")), P("price", Num(1599)), P("q\"k", Str("\\"))>>)}

\* Hand-written records and sequences of records, all JSON-representable.
LiteralSchemas ==
  {Obj(Base(Str(ty)) \o <<P("name", Str(n)), P("extra", x)>>) :
     ty \in {"Organization"}, n \in SpecialTexts, x \in LiteralValues}
  \cup
  ArraysUpTo({Obj(Base(Str(ty)) \o <<P("name", Str(n))>>) :
                ty \in {"Organization", "WebPage"},
                n \in {"Test Org", "é \"q\""}}, MaxItems)

\* The schemas a page adds next to the one just built.
ExtraSchemas ==
  {createProductSchema(MkProduct(Str("d"), Undefined, Undefined, Undefined,
                                 Undefined, Num(8), Str("USD"), Undefined))}

\* ------------------------------------------------------------------------
\* Memory: what a call leaves of its argument, and which parts of the
\* returned value are the caller's own objects
\* ------------------------------------------------------------------------

\* An argument emptied by the call that read it.
ReadAndCleared(x) == IF x.t = "array" THEN Arr(<<>>) ELSE Obj(<<>>)

\* The argument after the call: the functions only read it (destructuring,
\* property reads, .map, .length, JSON.stringify); none assigns to it or
\* calls a mutating method on it.
ReadOnly(x) == x

\* The default export: the functions by name.
Apply(name, x) ==
  CASE name = "createJsonLdScript" -> createJsonLdScript(x)
    [] name = "createOrganizationSchema" -> createOrganizationSchema(x)
    [] name = "createServiceSchema" -> createServiceSchema(x)
    [] name = "createFAQSchema" -> createFAQSchema(x)
    [] name = "createBreadcrumbSchema" -> createBreadcrumbSchema(x)
    [] name = "createReviewSchema" -> createReviewSchema(x)
    [] name = "createProductSchema" -> createProductSchema(x)
    [] name = "createArticleSchema" -> createArticleSchema(x)
    [] name = "createEventSchema" -> createEventSchema(x)
    [] name = "mergeSchemas" -> mergeSchemas(x)

Builders ==
  {"createOrganizationSchema", "createServiceSchema", "createFAQSchema",
   "createBreadcrumbSchema", "createReviewSchema", "createProductSchema",
   "createArticleSchema", "createEventSchema"}

\* The parts of a returned value a caller may write to: the record itself,
\* a nested record, a list in it, the merged sequence, an element of it.
PartsOf(name, r) ==
  (IF name \in Builders THEN {"record"} ELSE {})
  \cup (IF name = "createOrganizationSchema"
        THEN (IF HasKey(r, "sameAs") THEN {"sameAs"} ELSE {})
             \cup (IF HasKey(r, "openingHoursSpecification")
                   THEN {"dayOfWeek"} ELSE {})
             \cup (IF HasKey(r, "areaServed") THEN {"areaServed"} ELSE {})
        ELSE {})
  \cup (IF name = "createProductSchema" /\ Get(r, "image").t = "array"
        THEN {"image"} ELSE {})
  \cup (IF name = "createFAQSchema" THEN {"mainEntity"} ELSE {})
  \cup (IF name = "createBreadcrumbSchema" THEN {"itemListElement"} ELSE {})
  \cup (IF name = "createReviewSchema" THEN {"review"} ELSE {})
  \cup (IF name = "mergeSchemas"
        THEN {"merged"} \cup (IF Len(r.v) > 0 THEN {"element"} ELSE {})
        ELSE {})

\* Where the part is in the returned value: the keys (or index) to follow.
PathInResult(part) ==
  CASE part \in {"record", "merged"} -> <<>>
    [] part = "element" -> <<1>>
    [] part = "dayOfWeek" -> <<"openingHoursSpecification", "dayOfWeek">>
    [] OTHER -> <<part>>

\* Every list handed back as a copy: no part is the caller's own object.
SharedWithInputNever(part) == FALSE

\* The part is the very object the caller passed in: schema.sameAs =
\* organization.sameAs, dayOfWeek: openingHoursSpecification.dayOfWeek and
\* schema.image = image store the input list itself, and mergeSchemas
\* returns its input sequence, elements included.
SharedWithInput(part) ==
  part \in {"sameAs", "dayOfWeek", "image", "merged", "element"}

\* Where a shared part is in the argument.
PathInArgument(part) ==
  IF part = "sameAs" THEN <<"organization", "sameAs">> ELSE PathInResult(part)

\* The caller's write: a string pushed onto a list, a property set on a
\* record.
RECURSIVE Written(_, _)
Written(x, path) ==
  IF path = <<>>
  THEN IF x.t = "array"
       THEN Arr(Append(x.v, Str("added")))
       ELSE Put(x, "changed", Bool(TRUE))
  ELSE IF x.t = "array"
       THEN Arr([x.v EXCEPT ![Head(path)] = Written(x.v[Head(path)], Tail(path))])
       ELSE Put(x, Head(path), Written(Get(x, Head(path)), Tail(path)))

\* The trail of the other call site: an item no other input holds.
OtherSiteItems ==
  {Rec(<<P("name", Str("Blog")), P("url", Str("https://x.io/blog"))>>)}

\* The arguments of a call made while another call's values are still held.
OtherSiteCalls ==
  {[name |-> "createBreadcrumbSchema", x |-> items] :
     items \in ArraysUpTo(OtherSiteItems, MaxItems)}

\* ------------------------------------------------------------------------
\* The state machine: one page render builds a schema, may merge it,
\* serialize it or write to it, and ends; each action is one call of one
\* exported function, or one write of the caller to the value it got back.
\*   op      the function called last ("mutate" after a write, "none" at rest)
\*   arg     the argument as it was passed
\*   ret     the returned value
\*   live    the argument object as it is in memory now
\*   touched the part of the returned value written to, "none" if none
\* ------------------------------------------------------------------------

Init ==
  /\ op = "none"
  /\ arg = Undefined
  /\ ret = Undefined
  /\ live = Undefined
  /\ touched = "none"

CallCreateOrganizationSchema ==
  \E options \in OrganizationOptions :
    /\ op = "none"
    /\ op' = "createOrganizationSchema"
    /\ arg' = options
    /\ ret' = createOrganizationSchema(options)
    /\ live' = ReadOnly(options)
    /\ touched' = "none"

CallCreateFAQSchema ==
  \E faqs \in ArraysUpTo(FAQItems, MaxItems) :
    /\ op = "none"
    /\ op' = "createFAQSchema"
    /\ arg' = faqs
    /\ ret' = createFAQSchema(faqs)
    /\ live' = ReadOnly(faqs)
    /\ touched' = "none"

CallCreateBreadcrumbSchema ==
  \E items \in ArraysUpTo(BreadcrumbItems, MaxItems) :
    /\ op = "none"
    /\ op' = "createBreadcrumbSchema"
    /\ arg' = items
    /\ ret' = createBreadcrumbSchema(items)
    /\ live' = ReadOnly(items)
    /\ touched' = "none"

CallCreateProductSchema ==
  \E options \in ProductOptions :
    /\ op = "none"
    /\ op' = "createProductSchema"
    /\ arg' = options
    /\ ret' = createProductSchema(options)
    /\ live' = ReadOnly(options)
    /\ touched' = "none"

CallCreateServiceSchema ==
  \E options \in ServiceOptions :
    /\ op = "none"
    /\ op' = "createServiceSchema"
    /\ arg' = options
    /\ ret' = createServiceSchema(options)
    /\ live' = ReadOnly(options)
    /\ touched' = "none"

CallCreateReviewSchema ==
  \E options \in ReviewOptions :
    /\ op = "none"
    /\ op' = "createReviewSchema"
    /\ arg' = options
    /\ ret' = createReviewSchema(options)
    /\ live' = ReadOnly(options)
    /\ touched' = "none"

CallCreateArticleSchema ==
  \E options \in ArticleOptions :
    /\ op = "none"
    /\ op' = "createArticleSchema"
    /\ arg' = options
    /\ ret' = createArticleSchema(options)
    /\ live' = ReadOnly(options)
    /\ touched' = "none"

CallCreateEventSchema ==
  \E options \in EventOptions :
    /\ op = "none"
    /\ op' = "createEventSchema"
    /\ arg' = options
    /\ ret' = createEventSchema(options)
    /\ live' = ReadOnly(options)
    /\ touched' = "none"

\* mergeSchemas([schema, ...extra]) on the schema just built
CallMergeSchemas ==
  \E extra \in ArraysUpTo(ExtraSchemas, MaxItems - 1) :
    /\ op \in Builders
    /\ op' = "mergeSchemas"
    /\ arg' = Arr(<<ret>> \o extra.v)
    /\ ret' = mergeSchemas(arg')
    /\ live' = ReadOnly(arg')
    /\ touched' = "none"

\* mergeSchemas([])
CallMergeSchemasEmpty ==
  /\ op = "none"
  /\ op' = "mergeSchemas"
  /\ arg' = Arr(<<>>)
  /\ ret' = mergeSchemas(arg')
  /\ live' = ReadOnly(arg')
  /\ touched' = "none"

\* createJsonLdScript on the schema just built, or on the merged array
CallCreateJsonLdScript ==
  /\ op \in Builders \cup {"mergeSchemas"}
  /\ op' = "createJsonLdScript"
  /\ arg' = ret
  /\ ret' = createJsonLdScript(ret)
  /\ live' = ReadOnly(ret)
  /\ touched' = "none"

\* createJsonLdScript on a record the caller wrote by hand
CallCreateJsonLdScriptLiteral ==
  \E schema \in LiteralSchemas :
    /\ op = "none"
    /\ op' = "createJsonLdScript"
    /\ arg' = schema
    /\ ret' = createJsonLdScript(schema)
    /\ live' = ReadOnly(schema)
    /\ touched' = "none"

\* Another call site calls a builder while this one's argument and result
\* (written to or not) are still held.
CallFromOtherSite ==
  \E call \in OtherSiteCalls :
    /\ op \in Builders \cup {"mergeSchemas", "createJsonLdScript", "mutate"}
    /\ op' = call.name
    /\ arg' = call.x
    /\ ret' = Apply(call.name, call.x)
    /\ live' = ReadOnly(call.x)
    /\ touched' = "none"

\* The caller writes to a part of the value it got back; a part that is
\* the caller's own input object changes in the input as well.
MutateReturned ==
  \E part \in PartsOf(op, ret) :
    /\ op \in Builders \cup {"mergeSchemas"}
    /\ op' = "mutate"
    /\ arg' = arg
    /\ ret' = Written(ret, PathInResult(part))
    /\ live' = IF SharedWithInput(part)
               THEN Written(live, PathInArgument(part))
               ELSE live
    /\ touched' = part

\* The render is over; the next one starts from nothing.
Done ==
  /\ op # "none"
  /\ op' = "none"
  /\ arg' = Undefined
  /\ ret' = Undefined
  /\ live' = Undefined
  /\ touched' = "none"

Next ==
  \/ CallCreateOrganizationSchema
  \/ CallCreateFAQSchema
  \/ CallCreateBreadcrumbSchema
  \/ CallCreateProductSchema
  \/ CallCreateServiceSchema
  \/ CallCreateReviewSchema
  \/ CallCreateArticleSchema
  \/ CallCreateEventSchema
  \/ CallMergeSchemas
  \/ CallMergeSchemasEmpty
  \/ CallCreateJsonLdScript
  \/ CallCreateJsonLdScriptLiteral
  \/ CallFromOtherSite
  \/ MutateReturned
  \/ Done

Spec == Init /\ [][Next]_vars

\* ------------------------------------------------------------------------
\* Vocabulary of the properties
\* ------------------------------------------------------------------------

\* The caller's object o carries the field (any value of its type).
Has(o, key) == o.t = "object" /\ HasKey(o, key)

\* The field's value, undefined when o is no object or has no such field.
Field(o, key) == IF Has(o, key) THEN Get(o, key) ELSE Undefined

\* The field is there and is not the empty string.
HasNonEmpty(o, key) == Has(o, key) /\ Get(o, key).t = "string" /\ Get(o, key).v # ""

IsStr(x, text) == x.t = "string" /\ x.v = text

\* JSON.parse, as the reader of the script text applies it; the text
\* JSON.stringify writes holds no white space, so none is skipped.

\* What a parse step returns: the value and the position after it; pos = 0
\* stands for the SyntaxError JSON.parse throws.
Parsed(val, pos) == [val |-> val, pos |-> pos]

SyntaxError == Parsed([t |-> "SyntaxError", v |-> 0], 0)

IsDigit(c) == c # "" /\ \E d \in 0..9 : c = Digit(d)

DigitValue(c) == CHOOSE d \in 0..9 : c = Digit(d)

\* The end of the run of digits starting at i.
RECURSIVE DigitsEnd(_, _)
DigitsEnd(s, i) == IF IsDigit(Ch(s, i)) THEN DigitsEnd(s, i + 1) ELSE i

\* The number the digits s[i..j-1] write.
RECURSIVE DigitsValue(_, _, _)
DigitsValue(s, i, j) ==
  IF j <= i THEN 0 ELSE 10 * DigitsValue(s, i, j - 1) + DigitValue(Ch(s, j - 1))

Pow10(n) == IF n = 0 THEN 1 ELSE IF n = 1 THEN 10 ELSE IF n = 2 THEN 100
            ELSE IF n = 3 THEN 1000 ELSE 10000

\* A JSON number: -? digits (. digits)?; only the numbers of the model (a
\* whole count of sixteenths, at most four fraction digits, no exponent).
ParseNumber(s, i) ==
  LET neg == Ch(s, i) = "-"
      i0 == IF neg THEN i + 1 ELSE i
      i1 == DigitsEnd(s, i0)
      hasFrac == Ch(s, i1) = "."
      i2 == IF hasFrac THEN DigitsEnd(s, i1 + 1) ELSE i1
      fracLen == IF hasFrac THEN i2 - (i1 + 1) ELSE 0
      frac == IF hasFrac THEN DigitsValue(s, i1 + 1, i2) ELSE 0
      whole == DigitsValue(s, i0, i1)
  IN IF \/ i1 = i0
        \/ (i1 - i0 > 1 /\ Ch(s, i0) = "0")
        \/ (hasFrac /\ fracLen = 0)
        \/ fracLen > 4
        \/ (frac * Scale) % Pow10(fracLen) # 0
        \/ Ch(s, i2) \in {"e", "E"}
     THEN SyntaxError
     ELSE LET n == whole * Scale + (frac * Scale) \div Pow10(fracLen)
          IN Parsed(Num(IF neg THEN -n ELSE n), i2)

\* The character an escape \c stands for, "" when there is no such escape.
Unescape(c) ==
  CASE c = "\"" -> "\""
    [] c = "\\" -> "\\"
    [] c = "/" -> "/"
    [] c = "n" -> "\n"
    [] c = "r" -> "\r"
    [] c = "t" -> "\t"
    [] c = "f" -> "\f"
    [] OTHER -> ""

\* The rest of a JSON string whose opening quote is before i.
RECURSIVE ParseStringFrom(_, _, _)
ParseStringFrom(s, i, acc) ==
  LET c == Ch(s, i)
  IN CASE c = "" -> SyntaxError
       [] c = "\"" -> Parsed(acc, i + 1)
       [] c \in {"\n", "\r", "\t", "\f"} -> SyntaxError
       [] c = "\\" ->
            IF Unescape(Ch(s, i + 1)) = "" THEN SyntaxError
            ELSE ParseStringFrom(s, i + 2, acc \o Unescape(Ch(s, i + 1)))
       [] OTHER -> ParseStringFrom(s, i + 1, acc \o c)

ParseString(s, i) ==
  IF Ch(s, i) = "\"" THEN ParseStringFrom(s, i + 1, "") ELSE SyntaxError

ParseLiteral(s, i, word, val) ==
  IF SubSeq(s, i, i + Len(word) - 1) = word
  THEN Parsed(val, i + Len(word)) ELSE SyntaxError

RECURSIVE ParseValue(_, _)
RECURSIVE ParseElements(_, _, _)
RECURSIVE ParseMembers(_, _, _)

\* The elements of an array after "[" or ",".
ParseElements(s, i, acc) ==
  LET e == ParseValue(s, i)
  IN IF e.pos = 0 THEN SyntaxError
     ELSE IF Ch(s, e.pos) = "," THEN ParseElements(s, e.pos + 1, Append(acc, e.val))
     ELSE IF Ch(s, e.pos) = "]" THEN Parsed(Arr(Append(acc, e.val)), e.pos + 1)
     ELSE SyntaxError

\* The members of an object after "{" or ","; a repeated key keeps its
\* place and takes the later value.
ParseMembers(s, i, acc) ==
  LET k == ParseString(s, i)
      e == ParseValue(s, k.pos + 1)
  IN IF k.pos = 0 \/ Ch(s, k.pos) # ":" THEN SyntaxError
     ELSE IF e.pos = 0 THEN SyntaxError
     ELSE IF Ch(s, e.pos) = "," THEN ParseMembers(s, e.pos + 1, Put(acc, k.val, e.val))
     ELSE IF Ch(s, e.pos) = "}" THEN Parsed(Put(acc, k.val, e.val), e.pos + 1)
     ELSE SyntaxError

ParseValue(s, i) ==
  LET c == Ch(s, i)
  IN CASE c = "\"" ->
            LET r == ParseString(s, i)
            IN IF r.pos = 0 THEN SyntaxError ELSE Parsed(Str(r.val), r.pos)
       [] c = "[" ->
            IF Ch(s, i + 1) = "]" THEN Parsed(Arr(<<>>), i + 2)
            ELSE ParseElements(s, i + 1, <<>>)
       [] c = "{" ->
            IF Ch(s, i + 1) = "}" THEN Parsed(Obj(<<>>), i + 2)
            ELSE ParseMembers(s, i + 1, Obj(<<>>))
       [] c = "t" -> ParseLiteral(s, i, "true", Bool(TRUE))
       [] c = "f" -> ParseLiteral(s, i, "false", Bool(FALSE))
       [] c = "n" -> ParseLiteral(s, i, "null", Null)
       [] c = "-" \/ IsDigit(c) -> ParseNumber(s, i)
       [] OTHER -> SyntaxError

\* JSON.parse(text): the value, or the SyntaxError marker.
JSONParse(text) ==
  LET r == ParseValue(text, 1)
  IN IF r.pos = Len(text) + 1 THEN r.val ELSE SyntaxError.val

AllDigits(s) == \A i \in 1..Len(s) : IsDigit(Ch(s, i))

\* s reads -?digits.dd, the integer digits without a needless leading zero.
IsTwoDecimalText(s) ==
  LET body == IF Ch(s, 1) = "-" THEN SubSeq(s, 2, Len(s)) ELSE s
      whole == SubSeq(body, 1, Len(body) - 3)
  IN /\ Len(body) >= 4
     /\ Ch(body, Len(body) - 2) = "."
     /\ AllDigits(whole)
     /\ AllDigits(SubSeq(body, Len(body) - 1, Len(body)))
     /\ (Len(whole) > 1 => Ch(whole, 1) # "0")

\* The hundredths a two-decimal text writes, without its sign.
Hundredths(s) ==
  LET body == IF Ch(s, 1) = "-" THEN SubSeq(s, 2, Len(s)) ELSE s
  IN 100 * DigitsValue(body, 1, Len(body) - 2)
       + DigitsValue(body, Len(body) - 1, Len(body) + 1)

\* The two-decimal text s is the hundredth nearest to n sixteenths.
IsNearestHundredth(s, n) ==
  /\ (Ch(s, 1) = "-") <=> (n < 0)
  /\ Abs(Scale * Hundredths(s) - 100 * Abs(n)) * 2 <= Scale

\* Strings, finite numbers, booleans, null, and arrays and objects of them.
RECURSIVE JSONRepresentable(_)
JSONRepresentable(x) ==
  CASE x.t \in {"string", "boolean", "null"} -> TRUE
    [] x.t = "number" -> x.v.k = "finite"
    [] x.t = "array" -> \A i \in 1..Len(x.v) : JSONRepresentable(x.v[i])
    [] x.t = "object" -> \A i \in 1..Len(x.v) : JSONRepresentable(x.v[i].v)
    [] OTHER -> FALSE

\* The keys and elements of a value, in order, without the values: an
\* object's keys each with the shape below it, an array's elements' shapes.
RECURSIVE KeyShape(_)
KeyShape(x) ==
  CASE x.t = "object" ->
         [t |-> "object",
          v |-> [i \in 1..Len(x.v) |-> [k |-> x.v[i].k, v |-> KeyShape(x.v[i].v)]]]
    [] x.t = "array" ->
         [t |-> "array", v |-> [i \in 1..Len(x.v) |-> KeyShape(x.v[i])]]
    [] OTHER -> [t |-> "leaf", v |-> <<>>]

\* KeyShape without the keys whose value is undefined.
RECURSIVE DefinedKeyShape(_)
DefinedKeyShape(x) ==
  CASE x.t = "object" ->
         LET kept == SelectSeq(x.v, LAMBDA e : ~IsUndefined(e.v))
         IN [t |-> "object",
             v |-> [i \in 1..Len(kept) |->
                      [k |-> kept[i].k, v |-> DefinedKeyShape(kept[i].v)]]]
    [] x.t = "array" ->
         [t |-> "array", v |-> [i \in 1..Len(x.v) |-> DefinedKeyShape(x.v[i])]]
    [] OTHER -> [t |-> "leaf", v |-> <<>>]

OfferPrice == Field(Field(ret, "offers"), "price")

\* ------------------------------------------------------------------------
\* Properties
\* ------------------------------------------------------------------------

\* C1 as stated: createProductSchema's output has `offers` if and only if
\* the input carries both price and priceCurrency.
C1_OffersIffBothSupplied ==
  op = "createProductSchema" =>
    (Has(ret, "offers") <=> (Has(arg, "price") /\ Has(arg, "priceCurrency")))

\* C1, amended: createProductSchema's output has `offers` if and only if
\* price is supplied (0 included) and priceCurrency is supplied and is not
\* the empty string.
C1_OffersIffPriceAndNonEmptyCurrency ==
  op = "createProductSchema" =>
    (Has(ret, "offers") <=>
       (Has(arg, "price") /\ HasNonEmpty(arg, "priceCurrency")))

\* C1 witness: price 0 with a currency gives offers.
C1_Witness ==
  /\ op = "createProductSchema"
  /\ Field(arg, "price") = Num(0)
  /\ IsStr(Field(arg, "priceCurrency"), "USD")
  /\ Has(ret, "offers")

\* C2 as stated: whenever offers is emitted, offers.price is a string with
\* exactly two digits after the decimal point, for every numeric price.
C2_PriceAlwaysTwoDecimals ==
  (op = "createProductSchema" /\ Has(ret, "offers")) =>
    (OfferPrice.t = "string" /\ IsTwoDecimalText(OfferPrice.v))

\* C2, amended: whenever offers is emitted for a finite price of magnitude
\* below 1e21, offers.price is a string -?digits.dd with exactly two digits
\* after the decimal point, and it writes the hundredth nearest to the price.
C2_FinitePriceTwoDecimals ==
  (op = "createProductSchema" /\ Has(ret, "offers")
     /\ Field(arg, "price").v.k = "finite") =>
    /\ OfferPrice.t = "string"
    /\ IsTwoDecimalText(OfferPrice.v)
    /\ IsNearestHundredth(OfferPrice.v, Field(arg, "price").v.n)

\* C2 witness: 29.9375 is written "29.94".
C2_Witness ==
  /\ op = "createProductSchema"
  /\ Field(arg, "price") = Num(479)
  /\ IsStr(OfferPrice, "29.94")

C4_TextKeepsEveryKey ==
  op = "createJsonLdScript" =>
    /\ JSONParse(ret.v).t = arg.t
    /\ KeyShape(JSONParse(ret.v)) = KeyShape(arg)

\* C4, amended: the text is a JSON array for a sequence (one element per
\* record, in order) and a JSON object for a record; it has the keys and
\* elements of the input in the input's order, none added, and none removed
\* except the keys whose value is undefined.
C4_TextKeepsDefinedKeys ==
  op = "createJsonLdScript" =>
    /\ Ch(ret.v, 1) = (IF arg.t = "array" THEN "[" ELSE "{")
    /\ JSONParse(ret.v).t = arg.t
    /\ KeyShape(JSONParse(ret.v)) = DefinedKeyShape(arg)

\* C4 witness: a sequence of two records was serialized to an array of two.
C4_Witness ==
  /\ op = "createJsonLdScript"
  /\ arg.t = "array"
  /\ Len(arg.v) = 2
  /\ Field(arg.v[1], "@type") # Field(arg.v[2], "@type")
  /\ JSONParse(ret.v).t = "array"
  /\ Len(JSONParse(ret.v).v) = 2

\* C5: for a breadcrumb sequence of length N, itemListElement has length N
\* and element i is a ListItem with position i+1 (counting i from 0), the
\* name and the url of items[i].
C5_BreadcrumbPositions ==
  op = "createBreadcrumbSchema" =>
    LET list == Field(ret, "itemListElement")
    IN /\ list.t = "array"
       /\ Len(list.v) = Len(arg.v)
       /\ \A i \in 1..Len(arg.v) :
            /\ Keys(list.v[i]) = <<"@type", "position", "name", "item">>
            /\ IsStr(Get(list.v[i], "@type"), "ListItem")
            /\ Get(list.v[i], "position") = Int16(i)
            /\ Get(list.v[i], "name") = Get(arg.v[i], "name")
            /\ Get(list.v[i], "item") = Get(arg.v[i], "url")

\* C5 witness: two different items, the second at position 2.
C5_Witness ==
  /\ op = "createBreadcrumbSchema"
  /\ Len(arg.v) = 2
  /\ arg.v[1] # arg.v[2]
  /\ Get(Get(ret, "itemListElement").v[2], "position") = Int16(2)

\* C6: mainEntity is always present, with the length and order of the
\* input; element i is a Question named faqs[i].question whose
\* acceptedAnswer is an Answer with text faqs[i].answer.
C6_FAQMainEntity ==
  op = "createFAQSchema" =>
    LET list == Field(ret, "mainEntity")
    IN /\ Has(ret, "mainEntity")
       /\ list.t = "array"
       /\ Len(list.v) = Len(arg.v)
       /\ \A i \in 1..Len(arg.v) :
            /\ IsStr(Get(list.v[i], "@type"), "Question")
            /\ Get(list.v[i], "name") = Get(arg.v[i], "question")
            /\ IsStr(Field(Get(list.v[i], "acceptedAnswer"), "@type"), "Answer")
            /\ Field(Get(list.v[i], "acceptedAnswer"), "text") = Get(arg.v[i], "answer")

\* C6 witness: the empty input gave a present, empty mainEntity.
C6_Witness ==
  /\ op = "createFAQSchema"
  /\ Len(arg.v) = 0
  /\ Has(ret, "mainEntity")
  /\ Get(ret, "mainEntity") = Arr(<<>>)

InArea == Field(arg, "areaServed")

OutArea == Field(ret, "areaServed")

\* The output areaServed is the GeoCircle of the input's point and radius.
IsInputCircle ==
  /\ Keys(OutArea) = <<"@type", "geoMidpoint", "geoRadius">>
  /\ IsStr(Get(OutArea, "@type"), "GeoCircle")
  /\ IsStr(Field(Get(OutArea, "geoMidpoint"), "@type"), "GeoCoordinates")
  /\ Field(Get(OutArea, "geoMidpoint"), "latitude")
       = Field(Field(InArea, "geoMidpoint"), "latitude")
  /\ Field(Get(OutArea, "geoMidpoint"), "longitude")
       = Field(Field(InArea, "geoMidpoint"), "longitude")
  /\ Get(OutArea, "geoRadius") = Field(InArea, "geoRadius")

\* The output areaServed is exactly {@type: City, name: city}.
IsInputCity ==
  /\ Keys(OutArea) = <<"@type", "name">>
  /\ IsStr(Get(OutArea, "@type"), "City")
  /\ Get(OutArea, "name") = Field(InArea, "city")

\* C7 as stated: with both geoMidpoint and geoRadius set, areaServed is the
\* GeoCircle of the inputs, whatever city, region and country are.
C7_CircleWhenBothSet ==
  (op = "createOrganizationSchema"
     /\ Has(InArea, "geoMidpoint") /\ Has(InArea, "geoRadius")) =>
    (Has(ret, "areaServed") /\ IsInputCircle)

\* C7, amended: with geoMidpoint set and geoRadius set to a non-empty
\* string, areaServed is the GeoCircle of the inputs (latitude, longitude
\* and radius unchanged), whatever city, region and country are.
C7_CircleWhenRadiusNonEmpty ==
  (op = "createOrganizationSchema"
     /\ Has(InArea, "geoMidpoint") /\ HasNonEmpty(InArea, "geoRadius")) =>
    (Has(ret, "areaServed") /\ IsInputCircle)

\* C7 witness: a circle and a city were given, and the circle was emitted.
C7_Witness ==
  /\ op = "createOrganizationSchema"
  /\ Has(InArea, "geoMidpoint")
  /\ HasNonEmpty(InArea, "geoRadius")
  /\ HasNonEmpty(InArea, "city")
  /\ Has(InArea, "region")
  /\ IsInputCircle

\* C8 as stated: without a complete circle, a set city gives exactly the
\* City record and no set city gives no areaServed.
C8_CityWhenSet ==
  (op = "createOrganizationSchema"
     /\ ~(Has(InArea, "geoMidpoint") /\ Has(InArea, "geoRadius"))) =>
    /\ ret.t = "object"
    /\ Has(InArea, "city") => (Has(ret, "areaServed") /\ IsInputCity)
    /\ ~Has(InArea, "city") => ~Has(ret, "areaServed")

\* C8, amended: when geoMidpoint is missing or geoRadius is missing or
\* empty, a non-empty city gives exactly {@type: City, name: city}, and a
\* missing or empty city (region and country only, or no areaServed at all)
\* gives an output without areaServed.
C8_CityWhenNonEmpty ==
  (op = "createOrganizationSchema"
     /\ ~(Has(InArea, "geoMidpoint") /\ HasNonEmpty(InArea, "geoRadius"))) =>
    /\ ret.t = "object"
    /\ HasNonEmpty(InArea, "city") => (Has(ret, "areaServed") /\ IsInputCity)
    /\ ~HasNonEmpty(InArea, "city") => ~Has(ret, "areaServed")

\* C8 witness: only region and country were given, and nothing was emitted.
C8_Witness ==
  /\ op = "createOrganizationSchema"
  /\ InArea.t = "object"
  /\ Keys(InArea) = <<"region", "country">>
  /\ ~Has(ret, "areaServed")

InHours == Field(arg, "openingHoursSpecification")

Open24 == Field(InHours, "open24Hours").t = "boolean" /\ Field(InHours, "open24Hours").v

\* The output openingHoursSpecification carries the input's three fields.
IsInputHours ==
  LET out == Field(ret, "openingHoursSpecification")
  IN /\ Keys(out) = <<"@type", "dayOfWeek", "opens", "closes">>
     /\ IsStr(Get(out, "@type"), "OpeningHoursSpecification")
     /\ Get(out, "dayOfWeek") = Field(InHours, "dayOfWeek")
     /\ Get(out, "opens") = Field(InHours, "opens")
     /\ Get(out, "closes") = Field(InHours, "closes")

\* C9: whenever open24Hours is true the output has openingHours "Mo-Su" and
\* no openingHoursSpecification, whatever dayOfWeek, opens and closes are.
C9_Open24HoursWins ==
  (op = "createOrganizationSchema" /\ Open24) =>
    /\ IsStr(Field(ret, "openingHours"), "Mo-Su")
    /\ ~Has(ret, "openingHoursSpecification")

\* C9 witness: open24Hours is true and a complete schedule was given too.
C9_Witness ==
  /\ op = "createOrganizationSchema"
  /\ Open24
  /\ Has(InHours, "dayOfWeek") /\ Len(Get(InHours, "dayOfWeek").v) > 0
  /\ HasNonEmpty(InHours, "opens")
  /\ HasNonEmpty(InHours, "closes")
  /\ IsStr(Field(ret, "openingHours"), "Mo-Su")

\* C10 as stated: without open24Hours, the OpeningHoursSpecification record
\* is emitted if and only if dayOfWeek, opens and closes are all present.
C10_HoursWhenAllPresent ==
  (op = "createOrganizationSchema" /\ ~Open24) =>
    /\ ret.t = "object"
    /\ ~Has(ret, "openingHours")
    /\ Has(ret, "openingHoursSpecification") <=>
         (Has(InHours, "dayOfWeek") /\ Has(InHours, "opens") /\ Has(InHours, "closes"))
    /\ Has(ret, "openingHoursSpecification") => IsInputHours

\* C10, amended: without open24Hours (absent or false), the
\* OpeningHoursSpecification record, carrying dayOfWeek, opens and closes
\* unchanged, is emitted if and only if dayOfWeek is present (an empty list
\* included) and opens and closes are present and not empty; otherwise the
\* output has neither openingHours nor openingHoursSpecification.
C10_HoursWhenAllNonEmpty ==
  (op = "createOrganizationSchema" /\ ~Open24) =>
    /\ ret.t = "object"
    /\ ~Has(ret, "openingHours")
    /\ Has(ret, "openingHoursSpecification") <=>
         (Has(InHours, "dayOfWeek") /\ HasNonEmpty(InHours, "opens")
            /\ HasNonEmpty(InHours, "closes"))
    /\ Has(ret, "openingHoursSpecification") => IsInputHours

\* C10 witness: open24Hours is false, the schedule is complete, and the
\* record was emitted with it.
C10_Witness ==
  /\ op = "createOrganizationSchema"
  /\ Field(InHours, "open24Hours").t = "boolean"
  /\ ~Open24
  /\ HasNonEmpty(InHours, "opens")
  /\ Has(ret, "openingHoursSpecification")
  /\ IsInputHours

\* ------------------------------------------------------------------------
\* createReviewSchema
\* ------------------------------------------------------------------------

Aggregate == Field(ret, "aggregateRating")

\* C11: in every createReviewSchema result, aggregateRating.bestRating is
\* the supplied bestRating, or 5 when none is supplied, and
\* aggregateRating.worstRating is the supplied worstRating, or 1 when none
\* is supplied; a supplied 0 is kept.
C11_RatingScaleDefaults ==
  op = "createReviewSchema" =>
    /\ Field(Aggregate, "bestRating") =
         (IF Has(arg, "bestRating") THEN Get(arg, "bestRating") ELSE Int16(5))
    /\ Field(Aggregate, "worstRating") =
         (IF Has(arg, "worstRating") THEN Get(arg, "worstRating") ELSE Int16(1))

\* A review built with bestRating 0 and no worstRating: 0 is kept, the
\* omitted bound becomes 1.
C11_Witness ==
  /\ op = "createReviewSchema"
  /\ Has(arg, "bestRating") /\ Get(arg, "bestRating") = Int16(0)
  /\ ~Has(arg, "worstRating")
  /\ Field(Aggregate, "bestRating") = Int16(0)
  /\ Field(Aggregate, "worstRating") = Int16(1)

\* Entry i of `review` is the Review of input review i, with a Person
\* author and a Rating on the aggregate's scale.
IsReviewOf(entry, review) ==
  /\ IsStr(Field(entry, "@type"), "Review")
  /\ IsStr(Field(Field(entry, "author"), "@type"), "Person")
  /\ Field(Field(entry, "author"), "name") = Get(review, "author")
  /\ Field(entry, "reviewBody") = Get(review, "reviewBody")
  /\ Field(entry, "datePublished") = Get(review, "datePublished")
  /\ IsStr(Field(Field(entry, "reviewRating"), "@type"), "Rating")
  /\ Field(Field(entry, "reviewRating"), "ratingValue") = Get(review, "reviewRating")
  /\ Field(Field(entry, "reviewRating"), "bestRating") = Field(Aggregate, "bestRating")
  /\ Field(Field(entry, "reviewRating"), "worstRating") = Field(Aggregate, "worstRating")

\* C12: every createReviewSchema result has @type "LocalBusiness", has an
\* aggregateRating record (also with reviewCount 0), and has a `review`
\* array with one entry per input review, in the input's order, each with a
\* Person author and a Rating whose bestRating/worstRating are those of
\* aggregateRating.
C12_ReviewEntries ==
  op = "createReviewSchema" =>
    /\ IsStr(Field(ret, "@type"), "LocalBusiness")
    /\ Has(ret, "aggregateRating")
    /\ IsStr(Field(Aggregate, "@type"), "AggregateRating")
    /\ Field(Aggregate, "reviewCount") = Get(arg, "reviewCount")
    /\ Field(Aggregate, "ratingValue") = Get(arg, "ratingValue")
    /\ Field(ret, "review").t = "array"
    /\ Len(Field(ret, "review").v) = Len(Get(arg, "reviews").v)
    /\ \A i \in 1..Len(Get(arg, "reviews").v) :
         IsReviewOf(Field(ret, "review").v[i], Get(arg, "reviews").v[i])

\* Two different reviews, reviewCount 0 and a custom scale.
C12_Witness ==
  /\ op = "createReviewSchema"
  /\ Get(arg, "reviewCount") = Int16(0)
  /\ Has(arg, "bestRating") /\ Get(arg, "bestRating") = Int16(10)
  /\ Len(Get(arg, "reviews").v) = 2
  /\ Get(arg, "reviews").v[1] # Get(arg, "reviews").v[2]
  /\ Has(ret, "aggregateRating")
  /\ Len(Field(ret, "review").v) = 2


\* ------------------------------------------------------------------------
\* mergeSchemas
\* ------------------------------------------------------------------------

\* C13: mergeSchemas returns an array with the length of its input whose
\* element i is the input's element i, for every i; for the empty array it
\* returns the empty array.
C13_MergeKeepsSequence ==
  op = "mergeSchemas" =>
    /\ ret.t = "array"
    /\ Len(ret.v) = Len(arg.v)
    /\ \A i \in 1..Len(arg.v) : ret.v[i] = arg.v[i]

\* Two different schemas merged: both come back, in the order given.
C13_Witness ==
  /\ op = "mergeSchemas"
  /\ Len(arg.v) = 2
  /\ arg.v[1] # arg.v[2]
  /\ Len(ret.v) = 2
  /\ ret.v[1] = arg.v[1] /\ ret.v[2] = arg.v[2]

\* ------------------------------------------------------------------------
\* @context and @type
\* ------------------------------------------------------------------------

\* How many properties of o are named key.
CountKey(o, key) == Cardinality({i \in 1..Len(o.v) : o.v[i].k = key})

\* The @type the builder in `op` is to give its result.
BuilderType ==
  CASE op = "createOrganizationSchema" ->
         IF Has(arg, "type") THEN Get(arg, "type") ELSE Str("LocalBusiness")
    [] op = "createServiceSchema" -> Str("Service")
    [] op = "createFAQSchema" -> Str("FAQPage")
    [] op = "createBreadcrumbSchema" -> Str("BreadcrumbList")
    [] op = "createReviewSchema" -> Str("LocalBusiness")
    [] op = "createProductSchema" -> Str("Product")
    [] op = "createArticleSchema" -> Str("Article")
    [] op = "createEventSchema" -> Str("Event")

\* C14: the result of each of the eight builders is a record with @context
\* "https://schema.org" and exactly one @type, which names the builder's
\* kind; for createOrganizationSchema it is the caller's `type`, or
\* "LocalBusiness" when no `type` is given.
C14_ContextAndType ==
  op \in Builders =>
    /\ ret.t = "object"
    /\ CountKey(ret, "@context") = 1
    /\ IsStr(Get(ret, "@context"), "https://schema.org")
    /\ CountKey(ret, "@type") = 1
    /\ Get(ret, "@type") = BuilderType

\* An organization built with the caller's type "Organization".
C14_Witness ==
  /\ op = "createOrganizationSchema"
  /\ Has(arg, "type") /\ IsStr(Get(arg, "type"), "Organization")
  /\ IsStr(Get(ret, "@context"), "https://schema.org")
  /\ IsStr(Get(ret, "@type"), "Organization")

\* ------------------------------------------------------------------------
\* createOrganizationSchema: the fields of the organization
\* ------------------------------------------------------------------------

InOrg == Field(arg, "organization")

\* The key of the result that holds the organization's field f.
OutKey(f) == IF f = "id" THEN "@id" ELSE f

\* sameAs is in the result exactly when the input list is there and is not
\* empty, and then it is the input list.
SameAsWhenNonEmpty ==
  /\ Has(ret, "sameAs") <=> (Has(InOrg, "sameAs") /\ Len(Get(InOrg, "sameAs").v) > 0)
  /\ Has(ret, "sameAs") => Get(ret, "sameAs") = Get(InOrg, "sameAs")

\* C15 as stated: name and url are always there, and each optional key is
\* there, with the input's value, exactly when the input field is present.
C15_OptionalKeyIffPresent ==
  op = "createOrganizationSchema" =>
    /\ Has(ret, "name") /\ Get(ret, "name") = Get(InOrg, "name")
    /\ Has(ret, "url") /\ Get(ret, "url") = Get(InOrg, "url")
    /\ \A f \in OrgStringFields :
         /\ Has(ret, OutKey(f)) <=> Has(InOrg, f)
         /\ Has(ret, OutKey(f)) => Get(ret, OutKey(f)) = Get(InOrg, f)
    /\ SameAsWhenNonEmpty

\* C15, amended: name and url are always there; each optional key (@id from
\* id, description, telephone, email, priceRange, image, logo) is there,
\* with the input's value, exactly when the input field is present and is
\* not the empty string; sameAs is there exactly when its list is present
\* and not empty; a field that is not copied leaves no key at all.
C15_OptionalKeyIffNonEmpty ==
  op = "createOrganizationSchema" =>
    /\ Has(ret, "name") /\ Get(ret, "name") = Get(InOrg, "name")
    /\ Has(ret, "url") /\ Get(ret, "url") = Get(InOrg, "url")
    /\ \A f \in OrgStringFields :
         /\ Has(ret, OutKey(f)) <=> HasNonEmpty(InOrg, f)
         /\ Has(ret, OutKey(f)) => Get(ret, OutKey(f)) = Get(InOrg, f)
    /\ ~Has(ret, "id")
    /\ SameAsWhenNonEmpty

\* An organization with every optional field: all eight keys are copied.
C15_Witness ==
  /\ op = "createOrganizationSchema"
  /\ \A f \in OrgStringFields : HasNonEmpty(InOrg, f) /\ Has(ret, OutKey(f))
  /\ Has(InOrg, "sameAs") /\ Has(ret, "sameAs")
  /\ Get(ret, "@id") = Get(InOrg, "id")

\* ------------------------------------------------------------------------
\* createServiceSchema
\* ------------------------------------------------------------------------

\* C16: in every createServiceSchema result, provider is exactly the record
\* {@type: "LocalBusiness", name, url} with the provider's name and url,
\* whatever other fields the provider input carries.
C16_ProviderNameUrlOnly ==
  op = "createServiceSchema" =>
    /\ Has(ret, "provider")
    /\ Get(ret, "provider").t = "object"
    /\ Keys(Get(ret, "provider")) = <<"@type", "name", "url">>
    /\ IsStr(Get(Get(ret, "provider"), "@type"), "LocalBusiness")
    /\ Get(Get(ret, "provider"), "name") = Get(Get(arg, "provider"), "name")
    /\ Get(Get(ret, "provider"), "url") = Get(Get(arg, "provider"), "url")

\* A provider with every optional field, none of which was copied.
C16_Witness ==
  /\ op = "createServiceSchema"
  /\ \A f \in OrgStringFields : HasNonEmpty(Get(arg, "provider"), f)
  /\ Has(Get(arg, "provider"), "sameAs")
  /\ Keys(Get(ret, "provider")) = <<"@type", "name", "url">>

\* C17 as stated: areaServed is emitted, as the City of the input, exactly
\* when areaServed.city is given, and is never a GeoCircle.
C17_ServiceCityIffGiven ==
  op = "createServiceSchema" =>
    /\ Has(ret, "areaServed") <=> Has(InArea, "city")
    /\ Has(ret, "areaServed") => IsInputCity

\* C17, amended: createServiceSchema emits areaServed, as
\* {@type: City, name: city}, exactly when areaServed.city is given and is
\* not the empty string; a circle input never gives a GeoCircle, and a
\* circle without such a city gives no areaServed.
C17_ServiceCityIffNonEmpty ==
  op = "createServiceSchema" =>
    /\ Has(ret, "areaServed") <=> HasNonEmpty(InArea, "city")
    /\ Has(ret, "areaServed") => IsInputCity

\* One state has a circle and a city and got the City.
C17_Witness ==
  /\ op = "createServiceSchema"
  /\ Has(InArea, "geoMidpoint") /\ HasNonEmpty(InArea, "geoRadius")
  /\ HasNonEmpty(InArea, "city")
  /\ Has(ret, "areaServed") /\ IsInputCity

\* ------------------------------------------------------------------------
\* createArticleSchema
\* ------------------------------------------------------------------------

\* The result's author and publisher are the Person and the Organization
\* with the given names.
AuthorAndPublisher ==
  /\ Has(ret, "author")
  /\ Keys(Get(ret, "author")) = <<"@type", "name">>
  /\ IsStr(Get(Get(ret, "author"), "@type"), "Person")
  /\ Get(Get(ret, "author"), "name") = Get(arg, "author")
  /\ Has(ret, "publisher")
  /\ IsStr(Field(Get(ret, "publisher"), "@type"), "Organization")
  /\ Field(Get(ret, "publisher"), "name") = Get(arg, "publisher")

\* The result's mainEntityOfPage is exactly {@type: WebPage, @id: url}.
IsInputWebPage ==
  /\ Get(ret, "mainEntityOfPage").t = "object"
  /\ Keys(Get(ret, "mainEntityOfPage")) = <<"@type", "@id">>
  /\ IsStr(Get(Get(ret, "mainEntityOfPage"), "@type"), "WebPage")
  /\ Get(Get(ret, "mainEntityOfPage"), "@id") = Get(arg, "url")

\* C18 as stated: mainEntityOfPage is emitted, as the WebPage of the url,
\* exactly when url is present; author and publisher are always emitted.
C18_MainEntityIffUrl ==
  op = "createArticleSchema" =>
    /\ Has(ret, "mainEntityOfPage") <=> Has(arg, "url")
    /\ Has(ret, "mainEntityOfPage") => IsInputWebPage
    /\ AuthorAndPublisher

\* C18, amended: createArticleSchema emits mainEntityOfPage, as
\* {@type: WebPage, @id: url}, exactly when url is present and is not the
\* empty string, whatever the other optional fields are; author and
\* publisher are always emitted, as a Person and an Organization holding
\* the given names.
C18_MainEntityIffNonEmptyUrl ==
  op = "createArticleSchema" =>
    /\ Has(ret, "mainEntityOfPage") <=> HasNonEmpty(arg, "url")
    /\ Has(ret, "mainEntityOfPage") => IsInputWebPage
    /\ AuthorAndPublisher

\* An article with a url and no other optional field.
C18_Witness ==
  /\ op = "createArticleSchema"
  /\ HasNonEmpty(arg, "url")
  /\ ~Has(arg, "description") /\ ~Has(arg, "image")
  /\ ~Has(arg, "dateModified") /\ ~Has(arg, "publisherLogo")
  /\ IsInputWebPage

PublisherLogo == Field(Field(ret, "publisher"), "logo")

\* C19: in every createArticleSchema result, a logo nested in the publisher
\* is {@type: ImageObject, url: publisherLogo} and is there only if
\* publisherLogo is given (and is there whenever publisherLogo is a
\* non-empty string); when publisherLogo is not given, the publisher's logo
\* is undefined (no record is nested).
C19_PublisherLogoOnlyIfGiven ==
  op = "createArticleSchema" =>
    /\ ~IsUndefined(PublisherLogo) =>
         /\ Has(arg, "publisherLogo")
         /\ PublisherLogo.t = "object"
         /\ Keys(PublisherLogo) = <<"@type", "url">>
         /\ IsStr(Get(PublisherLogo, "@type"), "ImageObject")
         /\ Get(PublisherLogo, "url") = Get(arg, "publisherLogo")
    /\ ~Has(arg, "publisherLogo") => IsUndefined(PublisherLogo)
    /\ HasNonEmpty(arg, "publisherLogo") => ~IsUndefined(PublisherLogo)

\* An article with a publisherLogo, nested as an ImageObject.
C19_Witness ==
  /\ op = "createArticleSchema"
  /\ HasNonEmpty(arg, "publisherLogo")
  /\ IsStr(Field(PublisherLogo, "@type"), "ImageObject")
  /\ Field(PublisherLogo, "url") = Get(arg, "publisherLogo")

\* ------------------------------------------------------------------------
\* createEventSchema
\* ------------------------------------------------------------------------

InLocation == Field(arg, "location")

OutLocation == Field(ret, "location")

OutAddress == Field(OutLocation, "address")

\* C20: createEventSchema emits location exactly when location is given,
\* as a Place with the location's name; a PostalAddress is nested, with
\* streetAddress = address, only if the location has an address (and is
\* nested whenever the address is a non-empty string); a location without
\* address gives a Place whose address is undefined.
C20_LocationPlace ==
  op = "createEventSchema" =>
    /\ Has(ret, "location") <=> Has(arg, "location")
    /\ Has(ret, "location") =>
         /\ OutLocation.t = "object"
         /\ IsStr(Field(OutLocation, "@type"), "Place")
         /\ Field(OutLocation, "name") = Get(InLocation, "name")
         /\ ~IsUndefined(OutAddress) =>
              /\ Has(InLocation, "address")
              /\ OutAddress.t = "object"
              /\ Keys(OutAddress) = <<"@type", "streetAddress">>
              /\ IsStr(Get(OutAddress, "@type"), "PostalAddress")
              /\ Get(OutAddress, "streetAddress") = Get(InLocation, "address")
         /\ ~Has(InLocation, "address") => IsUndefined(OutAddress)
         /\ HasNonEmpty(InLocation, "address") => ~IsUndefined(OutAddress)

\* A location without address: a Place and no PostalAddress.
C20_Witness ==
  /\ op = "createEventSchema"
  /\ Has(arg, "location") /\ ~Has(InLocation, "address")
  /\ IsStr(Field(OutLocation, "@type"), "Place")
  /\ IsUndefined(OutAddress)

\* ------------------------------------------------------------------------
\* Enumeration values
\* ------------------------------------------------------------------------

\* The result's field f is "https://schema.org/" followed by the input's f.
IsQualified(out, in, f) ==
  /\ Get(out, f).t = "string"
  /\ Get(out, f).v = "https://schema.org/" \o Get(in, f).v

\* C21: createEventSchema emits eventStatus exactly when eventStatus is
\* supplied, and eventAttendanceMode exactly when eventAttendanceMode is
\* supplied, each as "https://schema.org/" followed by the supplied value;
\* either one is there or not whatever the other is.
C21_EventEnumsQualified ==
  op = "createEventSchema" =>
    \A f \in {"eventStatus", "eventAttendanceMode"} :
      /\ Has(ret, f) <=> Has(arg, f)
      /\ Has(ret, f) => IsQualified(ret, arg, f)

\* A cancelled event without attendance mode: one key qualified, the other
\* absent.
C21_Witness ==
  /\ op = "createEventSchema"
  /\ Has(arg, "eventStatus") /\ ~Has(arg, "eventAttendanceMode")
  /\ IsStr(Field(ret, "eventStatus"), "https://schema.org/EventCancelled")
  /\ ~Has(ret, "eventAttendanceMode")

Offers == Field(ret, "offers")

\* C22: whenever createProductSchema emits offers, the offers record has an
\* availability key; its value is "https://schema.org/" followed by the
\* supplied availability, or undefined when no availability is supplied.
C22_AvailabilityKeyAlways ==
  (op = "createProductSchema" /\ Has(ret, "offers")) =>
    /\ Has(Offers, "availability")
    /\ Has(arg, "availability") => IsQualified(Offers, arg, "availability")
    /\ ~Has(arg, "availability") => IsUndefined(Get(Offers, "availability"))

\* Offers without availability: the key is there, holding undefined.
C22_Witness ==
  /\ op = "createProductSchema"
  /\ ~Has(arg, "availability")
  /\ Has(Offers, "availability")
  /\ IsUndefined(Get(Offers, "availability"))

\* ------------------------------------------------------------------------
\* Totality
\* ------------------------------------------------------------------------

\* C23: no call ends in an error: every builder returns a record for every
\* input of its declared shape, mergeSchemas returns an array, and
\* createJsonLdScript returns a string for every record or array of records
\* it is given.
C23_NoError ==
  /\ op \in Builders => ret.t = "object"
  /\ op = "mergeSchemas" => ret.t = "array"
  /\ op = "createJsonLdScript" => ret.t = "string"

\* An organization built from contradictory input (a circle and a city,
\* open24Hours and a schedule): the call returned a record.
C23_Witness ==
  /\ op = "createOrganizationSchema"
  /\ Has(InArea, "geoMidpoint") /\ Has(InArea, "city")
  /\ Open24 /\ Has(InHours, "opens")
  /\ ret.t = "object"

\* ------------------------------------------------------------------------
\* Sharing, statelessness, arguments left alone
\* ------------------------------------------------------------------------

Operations == Builders \cup {"mergeSchemas", "createJsonLdScript"}

CompleteSchedule ==
  /\ Has(InHours, "dayOfWeek")
  /\ HasNonEmpty(InHours, "opens")
  /\ HasNonEmpty(InHours, "closes")

\* C27: no createOrganizationSchema result has both openingHours and
\* openingHoursSpecification; with open24Hours false and a complete
\* schedule the result has openingHoursSpecification and no openingHours.
C27_HoursKeysExclusive ==
  op = "createOrganizationSchema" =>
    /\ ~(Has(ret, "openingHours") /\ Has(ret, "openingHoursSpecification"))
    /\ (Field(InHours, "open24Hours") = Bool(FALSE) /\ CompleteSchedule) =>
         /\ Has(ret, "openingHoursSpecification")
         /\ IsInputHours
         /\ ~Has(ret, "openingHours")

\* open24Hours is false, the schedule is complete: only the specification
\* is in the result.
C27_Witness ==
  /\ op = "createOrganizationSchema"
  /\ Field(InHours, "open24Hours") = Bool(FALSE)
  /\ CompleteSchedule
  /\ Has(ret, "openingHoursSpecification")
  /\ ~Has(ret, "openingHours")

\* ------------------------------------------------------------------------
\* The empty string
\* ------------------------------------------------------------------------

\* The optional string fields of a builder's input, `type` left aside: a
\* field of the options, or a field of a record nested in them.
OptionalStrings(name) ==
  LET In(k, fields) == {<<k, f>> : f \in fields}
      area == In("areaServed", {"geoRadius", "city", "region", "country"})
  IN CASE name = "createOrganizationSchema" ->
            In("organization", OrgStringFields) \cup area
            \cup In("openingHoursSpecification", {"opens", "closes"})
       [] name = "createServiceSchema" ->
            {<<"image">>, <<"serviceType">>} \cup area
            \cup In("provider", OrgStringFields)
       [] name = "createReviewSchema" -> In("organization", OrgStringFields)
       [] name = "createProductSchema" ->
            {<<"image">>, <<"url">>, <<"brand">>, <<"sku">>, <<"priceCurrency">>}
       [] name = "createArticleSchema" ->
            {<<"description">>, <<"image">>, <<"dateModified">>,
             <<"publisherLogo">>, <<"url">>}
       [] name = "createEventSchema" ->
            {<<"description">>, <<"endDate">>, <<"url">>, <<"image">>,
             <<"location", "address">>}
       [] OTHER -> {}

\* The record without the key.
Without(o, key) == Obj(SelectSeq(o.v, LAMBDA e : e.k # key))

\* The options with the field at the path omitted.
Omitted(options, path) ==
  IF Len(path) = 1
  THEN Without(options, path[1])
  ELSE Put(options, path[1], Without(Get(options, path[1]), path[2]))

\* The options with the field at the path set to the empty string.
Emptied(options, path) ==
  IF Len(path) = 1
  THEN Put(options, path[1], Str(""))
  ELSE Put(options, path[1], Put(Get(options, path[1]), path[2], Str("")))

\* The builder returns the same for the field empty and the field omitted.
EmptyLikeOmitted(path) ==
  (Len(path) = 2 => Has(arg, path[1])) =>
    Apply(op, Emptied(arg, path)) = Apply(op, Omitted(arg, path))

\* C28 as stated: for every builder and every optional string field of its
\* input, `type` included, the result with the field given as "" is the
\* result with the field omitted.
C28_EveryEmptyStringLikeOmitted ==
  op \in Builders =>
    \A path \in OptionalStrings(op)
               \cup (IF op = "createOrganizationSchema" THEN {<<"type">>} ELSE {}) :
      EmptyLikeOmitted(path)

\* C28, amended: for every builder and every optional string field of its
\* input other than createOrganizationSchema's `type`, the result with the
\* field given as "" is the result with the field omitted; `type` given as
\* "" gives @type "", where an omitted `type` gives "LocalBusiness".
C28_EmptyStringLikeOmittedButType ==
  op \in Builders =>
    /\ \A path \in OptionalStrings(op) : EmptyLikeOmitted(path)
    /\ op = "createOrganizationSchema" =>
         /\ IsStr(Get(Apply(op, Emptied(arg, <<"type">>)), "@type"), "")
         /\ IsStr(Get(Apply(op, Omitted(arg, <<"type">>)), "@type"), "LocalBusiness")

\* An organization whose description is "": no description key, as for the
\* same organization without description.
C28_Witness ==
  /\ op = "createOrganizationSchema"
  /\ IsStr(Field(InOrg, "description"), "")
  /\ ~Has(ret, "description")
  /\ ret = Apply(op, Omitted(arg, <<"organization", "description">>))

\* ------------------------------------------------------------------------
\* createReviewSchema: what is taken from the input
\* ------------------------------------------------------------------------

\* Review i of the input has a rating above the scale's bestRating.
AboveScale(i) ==
  Get(Get(arg, "reviews").v[i], "reviewRating").v.n
    > Field(Aggregate, "bestRating").v.n

\* C29: a createReviewSchema result has the keys @context, @type, name,
\* aggregateRating and review only; name is organization.name and no other
\* field of the organization is in it; each review's ratingValue is the
\* input review's reviewRating, inside the scale or not.
C29_ReviewCopiesNameOnly ==
  op = "createReviewSchema" =>
    /\ Keys(ret) = <<"@context", "@type", "name", "aggregateRating", "review">>
    /\ Get(ret, "name") = Get(InOrg, "name")
    /\ \A f \in OrgStringFields \cup {"url", "sameAs"} : ~Has(ret, OutKey(f))
    /\ \A i \in 1..Len(Get(arg, "reviews").v) :
         Field(Field(Get(ret, "review").v[i], "reviewRating"), "ratingValue")
           = Get(Get(arg, "reviews").v[i], "reviewRating")

\* A full organization record and a review rated above bestRating: name
\* alone is copied, the rating is as given.
C29_Witness ==
  /\ op = "createReviewSchema"
  /\ \A f \in OrgStringFields : Has(InOrg, f)
  /\ Has(InOrg, "sameAs")
  /\ Len(Get(arg, "reviews").v) > 0
  /\ AboveScale(1)
  /\ Field(Field(Get(ret, "review").v[1], "reviewRating"), "ratingValue")
       = Get(Get(arg, "reviews").v[1], "reviewRating")
  /\ ~Has(ret, "url") /\ ~Has(ret, "sameAs")

\* ------------------------------------------------------------------------
\* Serialize, then parse: the keys of a builder's result
\* ------------------------------------------------------------------------

\* The builder's result, serialized and parsed back.
ParsedBack == JSONParse(createJsonLdScript(ret).v)

\* The builder left the key with an undefined value in the nested record.
LeftUndefined(outer, key) ==
  /\ Has(Field(ret, outer), key)
  /\ IsUndefined(Get(Get(ret, outer), key))

\* C30 as stated: the text of a builder's result parses back to a value
\* with the result's keys, those left undefined (offers.availability,
\* publisher.logo, location.address) included.
C30_ParsedBackKeepsEveryKey ==
  op \in Builders =>
    /\ KeyShape(ParsedBack) = KeyShape(ret)
    /\ LeftUndefined("offers", "availability") =>
         Has(Field(ParsedBack, "offers"), "availability")
    /\ LeftUndefined("publisher", "logo") =>
         Has(Field(ParsedBack, "publisher"), "logo")
    /\ LeftUndefined("location", "address") =>
         Has(Field(ParsedBack, "location"), "address")

\* C30, amended: the text of a builder's result parses back to a value
\* with the result's keys in the result's order, except the keys the
\* builder leaves with an undefined value: offers.availability,
\* publisher.logo and location.address, when undefined, are not in the
\* parsed value.
C30_ParsedBackDropsUndefinedKeys ==
  op \in Builders =>
    /\ KeyShape(ParsedBack) = DefinedKeyShape(ret)
    /\ LeftUndefined("offers", "availability") =>
         ~Has(Field(ParsedBack, "offers"), "availability")
    /\ LeftUndefined("publisher", "logo") =>
         ~Has(Field(ParsedBack, "publisher"), "logo")
    /\ LeftUndefined("location", "address") =>
         ~Has(Field(ParsedBack, "location"), "address")

\* An article built without publisherLogo: publisher has the key logo, the
\* parsed text's publisher has the key name and no logo.
C30_Witness ==
  /\ op = "createArticleSchema"
  /\ ~Has(arg, "publisherLogo")
  /\ LeftUndefined("publisher", "logo")
  /\ Has(Field(ParsedBack, "publisher"), "name")
  /\ ~Has(Field(ParsedBack, "publisher"), "logo")

====
